---- MODULE Spec2Model ----
(***************************************************************************)
(* Multimodal RAG system: the summaries cache and the driver (main.py),    *)
(* the element summarizers and their orchestrator (generate_summaries.py), *)
(* the vector store (vector_store.py) and the query engine                 *)
(* (rag_pipeline.py).                                                      *)
(*                                                                         *)
(* Strings are strings: a text of n characters is a label padded to n      *)
(* characters, and slicing, stripping and lower-casing work on characters. *)
(***************************************************************************)
EXTENDS Integers, Sequences, FiniteSets, TLC

VARIABLES
    pdf,                  \* the file at pdf_path: a document, or NoPdf
    cache,                \* data/cache/summaries_cache.json
    index,                \* the Chroma collection: a sequence of documents
    pc,                   \* position of main()
    pdf_hash,             \* main: pdf_hash
    cached_data,          \* main: cached_data
    use_cache,            \* main: use_cache
    elements,             \* main: elements
    summarized_elements,  \* main / generate_summaries: summarized_elements
    calls,                \* this run's calls: extraction and the three summarizers
    summ_call,            \* the last summarizer call and what it returned
    stats,                \* main: stats
    store_call,           \* this run's first reading of the store's count, and its ingestion
    runs,                 \* number of runs of main() started so far
    entry,                \* which entry point of the query engine ran last
    question,             \* the question of the last query
    k_arg,                \* the k of the last query
    retrieved_docs,       \* RAGPipeline.query: retrieved_docs of the last query
    generation,           \* the last query's request to the generation service
    response,             \* what the last query returned, or raised
    vs_calls,             \* calls to the vector index made by the last entry
    gen_calls,            \* calls to the generation service made by the last entry
    questions,            \* batch_query: the questions not yet processed
    responses             \* batch_query: responses

mainVars  == <<pdf, cache, index, pc, pdf_hash, cached_data, use_cache, elements,
               summarized_elements, calls, summ_call, stats, store_call, runs>>
queryVars == <<entry, question, k_arg, retrieved_docs, generation, response,
               vs_calls, gen_calls, questions, responses>>
vars      == <<mainVars, queryVars>>

---------------------------------------------------------------------------
(* Bounds *)

MaxRuns == 2          \* runs of main() in one behaviour

MaxEntries == 2       \* entries written by an interrupted save

---------------------------------------------------------------------------
(* Strings *)

Min(a, b) == IF a < b THEN a ELSE b

\* s[:n]
Slice(s, n) == SubSeq(s, 1, Min(Len(s), n))

Fill50 == ".........1.........2.........3.........4.........5"

Fill300 == Fill50 \o Fill50 \o Fill50 \o Fill50 \o Fill50 \o Fill50

\* a text of n characters (n up to 300) that starts with s
Pad(s, n) == Slice(s \o Fill300, n)

IsSpace(ch) == ch \in {" ", "\t", "\n"}

RECURSIVE LStrip(_)
LStrip(s) == IF Len(s) > 0 /\ IsSpace(SubSeq(s, 1, 1)) THEN LStrip(SubSeq(s, 2, Len(s))) ELSE s

RECURSIVE RStrip(_)
RStrip(s) ==
    IF Len(s) > 0 /\ IsSpace(SubSeq(s, Len(s), Len(s)))
    THEN RStrip(SubSeq(s, 1, Len(s) - 1)) ELSE s

\* s.strip()
Strip(s) == RStrip(LStrip(s))

LowerChar(ch) ==
    CASE ch = "A" -> "a" [] ch = "B" -> "b" [] ch = "C" -> "c" [] ch = "D" -> "d"
      [] ch = "E" -> "e" [] ch = "F" -> "f" [] ch = "G" -> "g" [] ch = "H" -> "h"
      [] ch = "I" -> "i" [] ch = "J" -> "j" [] ch = "K" -> "k" [] ch = "L" -> "l"
      [] ch = "M" -> "m" [] ch = "N" -> "n" [] ch = "O" -> "o" [] ch = "P" -> "p"
      [] ch = "Q" -> "q" [] ch = "R" -> "r" [] ch = "S" -> "s" [] ch = "T" -> "t"
      [] ch = "U" -> "u" [] ch = "V" -> "v" [] ch = "W" -> "w" [] ch = "X" -> "x"
      [] ch = "Y" -> "y" [] ch = "Z" -> "z" [] OTHER -> ch

RECURSIVE LowerRange(_, _, _)
LowerRange(s, i, j) ==
    IF i > j THEN ""
    ELSE IF i = j THEN LowerChar(SubSeq(s, i, i))
    ELSE LowerRange(s, i, (i + j) \div 2) \o LowerRange(s, ((i + j) \div 2) + 1, j)

\* s.lower()
Lower(s) == LowerRange(s, 1, Len(s))

\* w in s
Contains(s, w) == \E i \in 1..(Len(s) - Len(w) + 1) : SubSeq(s, i, i + Len(w) - 1) = w

---------------------------------------------------------------------------
(* The documents, as PyMuPDF reports them *)

Docs == {"A", "B", "E"}

NoPdf == "missing"

\* page.get_text("blocks"): the stripped text of each block, by its length
RawBlocks(d) ==
    CASE d = "A" -> << [page_num |-> 0, len |-> 250], [page_num |-> 0, len |-> 20],
                       [page_num |-> 0, len |-> 21] >>
      [] d = "B" -> << [page_num |-> 0, len |-> 0] >>
      [] OTHER   -> << [page_num |-> 0, len |-> 7] >>

\* page.find_tables(): the rendering df.to_string() of each table, by its length
RawTables(d) ==
    CASE d = "B" -> << [page_num |-> 0, len |-> 20], [page_num |-> 1, len |-> 300] >>
      [] OTHER   -> << >>

\* page.get_images(): each embedded image, readable or not
RawImages(d) ==
    CASE d = "B" -> << [page_num |-> 0, img_index |-> 0, w |-> 49, h |-> 400, ok |-> TRUE],
                       [page_num |-> 1, img_index |-> 0, w |-> 640, h |-> 50, ok |-> TRUE],
                       [page_num |-> 1, img_index |-> 1, w |-> 64, h |-> 64, ok |-> FALSE] >>
      [] OTHER   -> << >>

\* hashlib.md5(bytes).hexdigest(): the modelled documents have distinct digests
get_pdf_hash(d) == "md5-of-" \o d

---------------------------------------------------------------------------
(* extract_elements.py *)

MinTextLen == 20

MinTableLen == 20

MinImageSide == 50

RECURSIVE TextFrom(_, _, _)
TextFrom(d, i, acc) ==
    IF i > Len(RawBlocks(d)) THEN acc
    ELSE LET b == RawBlocks(d)[i]
             n == Cardinality({j \in 1..Len(acc) : acc[j].page = b.page_num + 1})
         IN  IF b.len > 0 /\ b.len > MinTextLen
             THEN TextFrom(d, i + 1, Append(acc,
                     [text |-> Pad("block " \o d \o ToString(i) \o " ", b.len),
                      page |-> b.page_num + 1,
                      element_id |-> "text_p" \o ToString(b.page_num) \o "_"
                                        \o ToString(n)]))
             ELSE TextFrom(d, i + 1, acc)

extract_text_pymupdf(d) == TextFrom(d, 1, << >>)

RECURSIVE TablesFrom(_, _, _)
TablesFrom(d, i, acc) ==
    IF i > Len(RawTables(d)) THEN acc
    ELSE LET t == RawTables(d)[i]
         IN  IF t.len > 0 /\ t.len > MinTableLen
             THEN TablesFrom(d, i + 1, Append(acc,
                     [text |-> Pad("table " \o d \o ToString(i) \o " ", t.len),
                      page |-> t.page_num + 1,
                      element_id |-> "table_" \o ToString(Len(acc))]))
             ELSE TablesFrom(d, i + 1, acc)

extract_tables_with_pymupdf(d) == TablesFrom(d, 1, << >>)

RECURSIVE ImagesFrom(_, _, _)
ImagesFrom(d, i, acc) ==
    IF i > Len(RawImages(d)) THEN acc
    ELSE LET g == RawImages(d)[i]
         IN  IF g.ok /\ ~(g.w < MinImageSide \/ g.h < MinImageSide)
             THEN ImagesFrom(d, i + 1, Append(acc,
                     [path |-> "data/extracted_images/image_p" \o ToString(g.page_num + 1)
                                \o "_" \o ToString(g.img_index) \o ".png",
                      page |-> g.page_num + 1,
                      element_id |-> "image_" \o ToString(Len(acc)),
                      size |-> <<g.w, g.h>>]))
             ELSE ImagesFrom(d, i + 1, acc)

extract_images_with_pymupdf(d) == ImagesFrom(d, 1, << >>)

\* the elements of each document, computed once
Extracted ==
    [d \in Docs |-> [text   |-> extract_text_pymupdf(d),
                     tables |-> extract_tables_with_pymupdf(d),
                     images |-> extract_images_with_pymupdf(d)]]

extract_elements(d) == Extracted[d]

---------------------------------------------------------------------------
(* generate_summaries.py *)

FallbackChars == 200

ErrorChars == 50

\* what one request to a generation service does: it answers with a text, or it
\* raises an error with a message
SummaryService ==
    { [ok |-> TRUE,  text |-> "  " \o Pad("Summary: ", 60) \o " "],
      [ok |-> FALSE, text |-> Pad("429 quota exceeded ", 80)] }

\* a bug: the fallback returns nothing
generate_text_summary_empty(text, element_id, svc) ==
    IF svc.ok THEN Strip(svc.text) ELSE ""

generate_text_summary(text, element_id, svc) ==
    IF svc.ok THEN Strip(svc.text) ELSE Slice(text, FallbackChars)

generate_table_summary(table_text, element_id, svc) ==
    IF svc.ok THEN Strip(svc.text) ELSE Slice(table_text, FallbackChars)

\* open: whether Image.open(image_path) succeeds (lines 107 and 125 open the same
\* file); svc: what the request to the vision service does
ImageService == { [open |-> o, svc |-> v] : o \in BOOLEAN, v \in SummaryService }

generate_image_summary(image_path, element_id, size, env) ==
    LET error_msg == IF env.open THEN env.svc.text ELSE "cannot identify image file"
    IN  IF env.open /\ env.svc.ok THEN Strip(env.svc.text)
        ELSE IF env.open
        THEN "Image " \o element_id \o ": " \o ToString(size[1]) \o "x"
                \o ToString(size[2]) \o " pixels. (Note: AI description failed: "
                \o Slice(error_msg, ErrorChars) \o ")"
        ELSE "Image at " \o image_path \o " (Description unavailable)"

\* the entries generate_summaries appends, one per element
TextEntry(elem, svc) ==
    [summary       |-> generate_text_summary(elem.text, elem.element_id, svc),
     original_text |-> elem.text,
     element_id    |-> elem.element_id,
     page          |-> elem.page,
     element_type  |-> "text"]

TableEntry(elem, svc) ==
    [summary       |-> generate_table_summary(elem.text, elem.element_id, svc),
     original_text |-> elem.text,
     element_id    |-> elem.element_id,
     page          |-> elem.page,
     element_type  |-> "table"]

ImageEntry(elem, env) ==
    [summary      |-> generate_image_summary(elem.path, elem.element_id, elem.size, env),
     image_path   |-> elem.path,
     element_id   |-> elem.element_id,
     page         |-> elem.page,
     element_type |-> "image"]

NoElements == [text |-> << >>, tables |-> << >>, images |-> << >>]

\* a bug: the entry inserted at the front
CollectFront(collected, made) == <<made>> \o collected

\* summarized_elements[type].append(entry)
Collect(collected, made) == Append(collected, made)

\* generate_summaries with every request answered the same way
generate_summaries(elems, env) ==
    [text   |-> [i \in 1..Len(elems.text)   |-> TextEntry(elems.text[i], env.svc)],
     tables |-> [i \in 1..Len(elems.tables) |-> TableEntry(elems.tables[i], env.svc)],
     images |-> [i \in 1..Len(elems.images) |-> ImageEntry(elems.images[i], env)]]

---------------------------------------------------------------------------
(* main.py: the summaries cache *)

NoCache == [exists |-> FALSE]

\* None when there is no cache file, else the stored record
load_cached_summaries(file) == file

save_cached_summaries(summaries, hash) ==
    [exists |-> TRUE, pdf_hash |-> hash, summaries |-> summaries]

\* the entries in the order json.dump writes them
Entries(summaries) == summaries.text \o summaries.tables \o summaries.images

\* the file when save_cached_summaries stops while json.dump writes: open(.., 'w')
\* has emptied the file, and it holds the beginning of the text of the new record,
\* up to its n-th entry; the closing brace is never there
torn_save(summaries, hash, n) ==
    [exists |-> TRUE, torn |-> TRUE, pdf_hash |-> hash,
     written |-> SubSeq(Entries(summaries), 1, n)]

\* json.load raises on such a file
Torn(file) == file.exists /\ "torn" \in DOMAIN file

\* a bug: the file left in place
clear_cache_kept(file) == file

\* main, lines 148-153: the file is unlinked if it exists
clear_cache(file) == IF file.exists THEN NoCache ELSE file

\* a bug: the comparison of the hashes inverted
UseCacheInverted(data, hash) == data.exists /\ data.pdf_hash # hash

\* a bug: any cache record is taken, whatever its hash
UseCacheAny(data, hash) == data.exists

\* cached_data and cached_data.get("pdf_hash") == pdf_hash
UseCache(data, hash) == data.exists /\ data.pdf_hash = hash

---------------------------------------------------------------------------
(* vector_store.py *)

OriginalChars == 500

TextDocument(elem, type) ==
    [page_content |-> elem.summary,
     metadata |-> [element_id |-> elem.element_id, element_type |-> type,
                   page |-> elem.page,
                   original_text |-> Slice(elem.original_text, OriginalChars)]]

ImageDocument(elem) ==
    [page_content |-> elem.summary,
     metadata |-> [element_id |-> elem.element_id, element_type |-> "image",
                   page |-> elem.page, image_path |-> elem.image_path]]

Documents(summarized) ==
    [i \in 1..Len(summarized.text) |-> TextDocument(summarized.text[i], "text")]
    \o [i \in 1..Len(summarized.tables) |-> TextDocument(summarized.tables[i], "table")]
    \o [i \in 1..Len(summarized.images) |-> ImageDocument(summarized.images[i])]

\* the collection after add_summaries: add_documents appends, nothing is replaced
add_summaries(collection, summarized) == collection \o Documents(summarized)

\* counted: whether self.vectorstore._collection.count() returns
get_collection_stats(collection, counted) ==
    IF counted
    THEN [total_documents |-> Len(collection), collection_name |-> "multimodal_rag"]
    ELSE [error |-> "collection unavailable"]

\* stats.get("total_documents", 0)
TotalDocuments(st) == IF "total_documents" \in DOMAIN st THEN st.total_documents ELSE 0

---------------------------------------------------------------------------
(* vector_store.py and rag_pipeline.py: one query *)

DefaultK == 5

PreviewChars == 150

HighChars == 100

MediumChars == 50

\* what similarity_search does: it raises, or it returns the documents at `hits`
\* (at most k of them, in the order of their similarity)
Windows(n, k) ==
    IF n = 0 THEN { << >> }
    ELSE { [i \in 1..m |-> ((s + i - 2) % n) + 1] : s \in 1..n, m \in 0..Min(k, n) }

\* the searches tried in the interactive loop: a failure, no hit, the first k
LoopSearches(collection, k) ==
    { [ok |-> FALSE, hits |-> << >>, error |-> "embedding failed"],
      [ok |-> TRUE, hits |-> << >>, error |-> ""],
      [ok |-> TRUE, hits |-> [i \in 1..Min(k, Len(collection)) |-> i], error |-> ""] }

Searches(collection, k) ==
    { [ok |-> TRUE, hits |-> h, error |-> ""] : h \in Windows(Len(collection), k) }
    \cup { [ok |-> FALSE, hits |-> << >>, error |-> "embedding failed"] }

\* VectorStore.query: the exception of similarity_search is not caught
VectorStoreQuery(collection, query_text, k, search) ==
    IF search.ok
    THEN [raised |-> FALSE, error |-> "",
          docs |-> [i \in 1..Len(search.hits) |-> collection[search.hits[i]]]]
    ELSE [raised |-> TRUE, error |-> search.error, docs |-> << >>]

\* what chat.completions.create does: it returns a text, or it raises
LoopService ==
    { [ok |-> TRUE,  text |-> " According to Source 1, it is.\n"],
      [ok |-> FALSE, text |-> "rate limit reached"] }

AnswerService ==
    LoopService
    \cup
    { [ok |-> TRUE, text |-> t] :
        t \in { Pad("According to Source 1, ", 101),
                Pad("According to Source 1, ", 100),
                Pad("SOURCE 2 states that ", 120),
                Pad("The document says ", 150),
                Pad("The context says ", 51),
                Pad("The context says ", 50),
                Pad("See source 1. ", 30),
                "" } }
    \cup { [ok |-> FALSE, text |-> Pad("upstream source timed out ", 90)] }

\* a bug: the thresholds not strict
_assess_confidence_inclusive(answer, docs) ==
    IF Contains(Lower(answer), "source") /\ Len(answer) >= HighChars THEN "high"
    ELSE IF Len(answer) >= MediumChars THEN "medium"
    ELSE "low"

_assess_confidence(answer, docs) ==
    IF Contains(Lower(answer), "source") /\ Len(answer) > HighChars THEN "high"
    ELSE IF Len(answer) > MediumChars THEN "medium"
    ELSE "low"

Source(doc, idx) ==
    [element_id      |-> IF "element_id" \in DOMAIN doc.metadata
                         THEN doc.metadata.element_id ELSE "doc_" \o ToString(idx),
     element_type    |-> IF "element_type" \in DOMAIN doc.metadata
                         THEN doc.metadata.element_type ELSE "unknown",
     page            |-> IF "page" \in DOMAIN doc.metadata
                         THEN doc.metadata.page ELSE "N/A",
     content_preview |-> Slice(doc.page_content, PreviewChars)]

\* a bug: the sources collected in the reverse order
SourcesReversed(docs) == [i \in 1..Len(docs) |-> Source(docs[Len(docs) + 1 - i], i - 1)]

Sources(docs) == [i \in 1..Len(docs) |-> Source(docs[i], i - 1)]

NoAnswer == "I couldn't find relevant information to answer this question."

RAGResponse(answer, sources, confidence) ==
    [kind |-> "returned", answer |-> answer, sources |-> sources,
     confidence |-> confidence]

Raised(error) == [kind |-> "raised", error |-> error]

NoGeneration == [called |-> FALSE, ok |-> FALSE, text |-> ""]

Generation(gen) == [called |-> TRUE, ok |-> gen.ok, text |-> gen.text]

\* a bug: the check for an empty retrieval left out
NoDocsNever(docs) == FALSE

\* if not retrieved_docs
NoDocs(docs) == docs = << >>

\* lines 58-62
EmptyResponse == RAGResponse(NoAnswer, << >>, "low")

\* lines 114-125
AnswerResponse(gen, docs) ==
    LET answer == Strip(gen.text)
    IN  RAGResponse(answer, Sources(docs), _assess_confidence(answer, docs))

\* a bug: the error answer scored like a generated answer
ErrorResponseScored(gen, docs) ==
    RAGResponse("Error generating response: " \o gen.text, Sources(docs),
                _assess_confidence("Error generating response: " \o gen.text, docs))

\* lines 127-133
ErrorResponse(gen, docs) ==
    RAGResponse("Error generating response: " \o gen.text, Sources(docs), "low")

\* RAGPipeline.query: what it returns or raises, the documents it retrieved, its
\* request to the generation service, and its calls to the vector index
Query(collection, q, k, search, gen) ==
    LET found == VectorStoreQuery(collection, q, k, search)
        docs  == found.docs
    IN  IF found.raised
        THEN [result |-> Raised(found.error), docs |-> << >>,
              generation |-> NoGeneration, vs_calls |-> 1, gen_calls |-> 0]
        ELSE IF NoDocs(docs)
        THEN [result |-> EmptyResponse, docs |-> docs,
              generation |-> NoGeneration, vs_calls |-> 1, gen_calls |-> 0]
        ELSE [result |-> IF gen.ok THEN AnswerResponse(gen, docs)
                         ELSE ErrorResponse(gen, docs),
              docs |-> docs, generation |-> Generation(gen), vs_calls |-> 1,
              gen_calls |-> 1]

---------------------------------------------------------------------------
(* main.py: one run of main() *)

Stopped == {"idle", "nopdf", "done", "load failed", "aborted", "save failed", "add failed"}

NoCalls == [extract |-> 0, text |-> 0, tables |-> 0, images |-> 0, service |-> 0]

NoCall == [type |-> "none", element_id |-> "", text |-> "", failed |-> FALSE,
           returned |-> ""]

NoStats == [error |-> "not read"]

NoResponse == [kind |-> "none"]

\* the vector store has not been read or written in this run
NoStoreCall == [reported |-> NoStats, before |-> << >>, ingested |-> FALSE]

\* no query has been made
QueryInit ==
    /\ entry = "none"
    /\ question = ""
    /\ k_arg = DefaultK
    /\ retrieved_docs = << >>
    /\ generation = NoGeneration
    /\ response = NoResponse
    /\ vs_calls = 0
    /\ gen_calls = 0
    /\ questions = << >>
    /\ responses = << >>

\* a new process: no query has been made in it
NoQuery ==
    /\ entry' = "none"
    /\ question' = ""
    /\ k_arg' = DefaultK
    /\ retrieved_docs' = << >>
    /\ generation' = NoGeneration
    /\ response' = NoResponse
    /\ vs_calls' = 0
    /\ gen_calls' = 0
    /\ questions' = << >>
    /\ responses' = << >>

\* main, lines 57-91, up to the first summarizer call: the document is hashed, the
\* cache is read, and the stored summaries are taken or the elements extracted
StartMain(d) ==
    /\ pc \in Stopped
    /\ runs < MaxRuns
    /\ runs' = runs + 1
    /\ pdf' = d
    /\ summ_call' = NoCall
    /\ stats' = NoStats
    /\ store_call' = NoStoreCall
    /\ IF d = NoPdf
       THEN /\ pc' = "nopdf"
            /\ pdf_hash' = ""
            /\ cached_data' = NoCache
            /\ use_cache' = FALSE
            /\ elements' = NoElements
            /\ summarized_elements' = NoElements
            /\ calls' = NoCalls
       ELSE IF Torn(cache)
       THEN /\ pc' = "load failed"
            /\ pdf_hash' = ""
            /\ cached_data' = NoCache
            /\ use_cache' = FALSE
            /\ elements' = NoElements
            /\ summarized_elements' = NoElements
            /\ calls' = NoCalls
       ELSE LET hash == get_pdf_hash(d)
                data == load_cached_summaries(cache)
            IN  /\ pdf_hash' = hash
                /\ cached_data' = data
                /\ use_cache' = UseCache(data, hash)
                /\ IF UseCache(data, hash)
                   THEN /\ summarized_elements' = data.summaries
                        /\ elements' = NoElements
                        /\ calls' = NoCalls
                        /\ pc' = "store"
                   ELSE /\ elements' = extract_elements(d)
                        /\ summarized_elements' = NoElements
                        /\ calls' = [NoCalls EXCEPT !.extract = 1]
                        /\ pc' = "summarize"
    /\ NoQuery
    /\ UNCHANGED <<cache, index>>

\* generate_summaries, lines 152-160: the next text element
SummarizeText(svc) ==
    /\ pc = "summarize"
    /\ Len(summarized_elements.text) < Len(elements.text)
    /\ LET elem == elements.text[Len(summarized_elements.text) + 1]
           made == TextEntry(elem, svc)
       IN  /\ summarized_elements' =
                [summarized_elements EXCEPT !.text = Collect(@, made)]
           /\ summ_call' = [type |-> "text", element_id |-> elem.element_id,
                            text |-> elem.text, failed |-> ~svc.ok,
                            returned |-> made.summary]
    /\ calls' = [calls EXCEPT !.text = @ + 1, !.service = @ + 1]
    /\ UNCHANGED <<pdf, cache, index, pc, pdf_hash, cached_data, use_cache, elements,
                   stats, store_call, runs, queryVars>>

\* generate_summaries, lines 163-172: the next table element
SummarizeTable(svc) ==
    /\ pc = "summarize"
    /\ Len(summarized_elements.text) = Len(elements.text)
    /\ Len(summarized_elements.tables) < Len(elements.tables)
    /\ LET elem == elements.tables[Len(summarized_elements.tables) + 1]
           made == TableEntry(elem, svc)
       IN  /\ summarized_elements' =
                [summarized_elements EXCEPT !.tables = Collect(@, made)]
           /\ summ_call' = [type |-> "table", element_id |-> elem.element_id,
                            text |-> elem.text, failed |-> ~svc.ok,
                            returned |-> made.summary]
    /\ calls' = [calls EXCEPT !.tables = @ + 1, !.service = @ + 1]
    /\ UNCHANGED <<pdf, cache, index, pc, pdf_hash, cached_data, use_cache, elements,
                   stats, store_call, runs, queryVars>>

\* generate_summaries, lines 175-184: the next image element
SummarizeImage(env) ==
    /\ pc = "summarize"
    /\ Len(summarized_elements.text) = Len(elements.text)
    /\ Len(summarized_elements.tables) = Len(elements.tables)
    /\ Len(summarized_elements.images) < Len(elements.images)
    /\ LET elem == elements.images[Len(summarized_elements.images) + 1]
           made == ImageEntry(elem, env)
       IN  /\ summarized_elements' =
                [summarized_elements EXCEPT !.images = Collect(@, made)]
           /\ summ_call' = [type |-> "image", element_id |-> elem.element_id,
                            text |-> elem.path, failed |-> ~(env.open /\ env.svc.ok),
                            returned |-> made.summary]
    /\ calls' = [calls EXCEPT !.images = @ + 1,
                              !.service = IF env.open THEN @ + 1 ELSE @]
    /\ UNCHANGED <<pdf, cache, index, pc, pdf_hash, cached_data, use_cache, elements,
                   stats, store_call, runs, queryVars>>

\* an exception that main does not catch: the process ends with a traceback
Crash(how) ==
    /\ pc' = how
    /\ pdf_hash' = ""
    /\ cached_data' = NoCache
    /\ use_cache' = FALSE
    /\ elements' = NoElements
    /\ summarized_elements' = NoElements
    /\ calls' = NoCalls
    /\ summ_call' = NoCall
    /\ stats' = NoStats
    /\ store_call' = NoStoreCall
    /\ NoQuery

\* a bug: the summaries returned after the text loop
AllSummarizedText(summarized, elems) == Len(summarized.text) = Len(elems.text)

\* the three loops of generate_summaries have ended and it returns, line 187
AllSummarized(summarized, elems) ==
    /\ Len(summarized.text) = Len(elems.text)
    /\ Len(summarized.tables) = Len(elems.tables)
    /\ Len(summarized.images) = Len(elems.images)

\* the run is stopped inside generate_summaries (Ctrl-C, the process killed)
AbortSummaries ==
    /\ pc = "summarize"
    /\ ~AllSummarized(summarized_elements, elements)
    /\ Crash("aborted")
    /\ UNCHANGED <<pdf, cache, index, runs>>

\* save_cached_summaries fails or is stopped: before the file is opened, or while
\* json.dump writes, after n entries
SaveInterrupted(opened, n) ==
    /\ pc = "summarize"
    /\ AllSummarized(summarized_elements, elements)
    /\ n <= Len(Entries(summarized_elements))
    /\ cache' = IF opened THEN torn_save(summarized_elements, pdf_hash, n) ELSE cache
    /\ Crash("save failed")
    /\ UNCHANGED <<pdf, index, runs>>

\* generate_summaries returns and main, line 91, saves the summaries
SaveSummaries ==
    /\ pc = "summarize"
    /\ AllSummarized(summarized_elements, elements)
    /\ cache' = save_cached_summaries(summarized_elements, pdf_hash)
    /\ pc' = "store"
    /\ UNCHANGED <<pdf, index, pdf_hash, cached_data, use_cache, elements,
                   summarized_elements, calls, summ_call, stats, store_call, runs,
                   queryVars>>

\* a bug: the indexing skipped whenever the store reports documents
SkipIndexingPopulated(st, reuse) == TotalDocuments(st) > 0

\* line 100: stats.get("total_documents", 0) > 0 and use_cache
SkipIndexing(st, reuse) == TotalDocuments(st) > 0 /\ reuse

\* main, lines 93-107: the summaries are added to the vector store, unless the
\* cache was used and the store reports documents. embedded: whether add_documents
\* computes the embeddings; when it raises, nothing is added and main ends
StoreSummaries(counted1, embedded, counted2) ==
    /\ pc = "store"
    /\ LET first == get_collection_stats(index, counted1)
       IN  IF SkipIndexing(first, use_cache)
           THEN /\ index' = index
                /\ stats' = first
                /\ store_call' = [reported |-> first, before |-> index,
                                  ingested |-> FALSE]
                /\ pc' = "loop"
                /\ UNCHANGED <<pdf_hash, cached_data, use_cache, elements,
                               summarized_elements, calls, summ_call, queryVars>>
           ELSE IF Documents(summarized_elements) # << >> /\ ~embedded
           THEN /\ index' = index
                /\ Crash("add failed")
           ELSE /\ index' = add_summaries(index, summarized_elements)
                /\ stats' = get_collection_stats(add_summaries(index, summarized_elements),
                                                 counted2)
                /\ store_call' = [reported |-> first, before |-> index,
                                  ingested |-> TRUE]
                /\ pc' = "loop"
                /\ UNCHANGED <<pdf_hash, cached_data, use_cache, elements,
                               summarized_elements, calls, summ_call, queryVars>>
    /\ UNCHANGED <<pdf, cache, runs>>

\* input(): the lines the user types; Interrupt stands for Ctrl-C
Interrupt == "<KeyboardInterrupt>"

Lines == {"", "   ", "quit", " EXIT ", "q", "clear", "Clear ", "What is attention?",
          Interrupt}

locals == <<pdf_hash, cached_data, use_cache, elements, summarized_elements, calls,
            summ_call, stats, store_call>>

\* break, lines 145 and 164: main returns and the process ends
Return ==
    /\ pc' = "done"
    /\ pdf_hash' = ""
    /\ cached_data' = NoCache
    /\ use_cache' = FALSE
    /\ elements' = NoElements
    /\ summarized_elements' = NoElements
    /\ calls' = NoCalls
    /\ summ_call' = NoCall
    /\ stats' = NoStats
    /\ store_call' = NoStoreCall
    /\ NoQuery
    /\ UNCHANGED cache

\* main, lines 136-166: one turn of the interactive loop
Turn(line) ==
    /\ pc = "loop"
    /\ LET q == Strip(line)
       IN  IF line = Interrupt
           THEN Return
           ELSE IF q = ""
           THEN /\ entry' = "main"
                /\ question' = q
                /\ k_arg' = DefaultK
                /\ retrieved_docs' = << >>
                /\ generation' = NoGeneration
                /\ response' = NoResponse
                /\ vs_calls' = 0
                /\ gen_calls' = 0
                /\ UNCHANGED <<pc, cache, questions, responses>>
                /\ UNCHANGED locals
           ELSE IF Lower(q) \in {"quit", "exit", "q"}
           THEN Return
           ELSE IF Lower(q) = "clear"
           THEN /\ cache' = clear_cache(cache)
                /\ entry' = "main"
                /\ question' = q
                /\ k_arg' = DefaultK
                /\ retrieved_docs' = << >>
                /\ generation' = NoGeneration
                /\ response' = NoResponse
                /\ vs_calls' = 0
                /\ gen_calls' = 0
                /\ UNCHANGED <<pc, questions, responses>>
                /\ UNCHANGED locals
           ELSE \E search \in LoopSearches(index, DefaultK), gen \in LoopService :
                  LET done == Query(index, q, DefaultK, search, gen)
                  IN  /\ entry' = "main"
                      /\ question' = q
                      /\ k_arg' = DefaultK
                      /\ retrieved_docs' = << >>
                      /\ generation' = NoGeneration
                      /\ response' = IF done.result.kind = "raised"
                                     THEN [kind |-> "error printed"]
                                     ELSE [kind |-> "printed"]
                      /\ vs_calls' = done.vs_calls
                      /\ gen_calls' = done.gen_calls
                      /\ UNCHANGED <<pc, cache, questions, responses>>
                      /\ UNCHANGED locals
    /\ UNCHANGED <<pdf, index, runs>>

---------------------------------------------------------------------------
(* rag_pipeline.py: the query engine called directly *)

MaxBatch == 2         \* questions in one batch_query

Questions == {"", "What is attention?"}

Ks == {1, 2, DefaultK}

RECURSIVE SeqsUpTo(_, _)
SeqsUpTo(S, n) ==
    IF n = 0 THEN { << >> }
    ELSE SeqsUpTo(S, n - 1)
         \cup { Append(q, x) : q \in { r \in SeqsUpTo(S, n - 1) : Len(r) = n - 1 }, x \in S }

\* RAGPipeline.query(question, k), called by a program that holds the pipeline.
\* The pipeline keeps nothing from one call to the next, so a behaviour makes one call.
DirectQuery(q, k, search, gen) ==
    /\ entry = "none"
    /\ LET done == Query(index, q, k, search, gen)
       IN  /\ entry' = "query"
           /\ question' = q
           /\ k_arg' = k
           /\ retrieved_docs' = done.docs
           /\ generation' = done.generation
           /\ response' = done.result
           /\ vs_calls' = done.vs_calls
           /\ gen_calls' = done.gen_calls
    /\ UNCHANGED <<mainVars, questions, responses>>

\* batch_query, line 156: responses = []
BatchStart(qs, k) ==
    /\ entry = "none"
    /\ entry' = "batch"
    /\ questions' = qs
    /\ responses' = << >>
    /\ k_arg' = k
    /\ question' = ""
    /\ retrieved_docs' = << >>
    /\ generation' = NoGeneration
    /\ response' = NoResponse
    /\ vs_calls' = 0
    /\ gen_calls' = 0
    /\ UNCHANGED mainVars

\* batch_query, lines 157-159: the next question; an exception of query ends the batch
BatchStep(search, gen) ==
    /\ entry = "batch"
    /\ questions # << >>
    /\ LET done == Query(index, Head(questions), k_arg, search, gen)
       IN  /\ question' = Head(questions)
           /\ retrieved_docs' = done.docs
           /\ generation' = done.generation
           /\ response' = done.result
           /\ vs_calls' = done.vs_calls
           /\ gen_calls' = done.gen_calls
           /\ IF done.result.kind = "raised"
              THEN /\ entry' = "batch raised"
                   /\ UNCHANGED <<questions, responses>>
              ELSE /\ entry' = entry
                   /\ questions' = Tail(questions)
                   /\ responses' = Append(responses, done.result)
    /\ UNCHANGED <<mainVars, k_arg>>

\* batch_query, line 160: return responses
BatchReturn ==
    /\ entry = "batch"
    /\ questions = << >>
    /\ entry' = "batch returned"
    /\ UNCHANGED <<mainVars, question, k_arg, retrieved_docs, generation, response,
                   vs_calls, gen_calls, questions, responses>>

---------------------------------------------------------------------------
(* Specifications *)

MainInit ==
    /\ pdf = NoPdf
    /\ cache = NoCache
    /\ pc = "idle"
    /\ pdf_hash = ""
    /\ cached_data = NoCache
    /\ use_cache = FALSE
    /\ elements = NoElements
    /\ summarized_elements = NoElements
    /\ calls = NoCalls
    /\ summ_call = NoCall
    /\ stats = NoStats
    /\ store_call = NoStoreCall
    /\ runs = 0

\* a fresh installation: no cache file, an empty collection
Init == MainInit /\ QueryInit /\ index = << >>

Next ==
    \/ \E d \in Docs \cup {NoPdf} : StartMain(d)
    \/ \E svc \in SummaryService : SummarizeText(svc)
    \/ \E svc \in SummaryService : SummarizeTable(svc)
    \/ \E env \in ImageService : SummarizeImage(env)
    \/ AbortSummaries
    \/ \E opened \in BOOLEAN, n \in 0..MaxEntries : SaveInterrupted(opened, n)
    \/ SaveSummaries
    \/ \E c1, embedded, c2 \in BOOLEAN : StoreSummaries(c1, embedded, c2)
    \/ \E line \in Lines : Turn(line)

Spec == Init /\ [][Next]_vars

\* every request to the services answered, or every request refused
AllAnswered == [open |-> TRUE, svc |-> CHOOSE v \in SummaryService : v.ok]

AllRefused == [open |-> TRUE, svc |-> CHOOSE v \in SummaryService : ~v.ok]

\* collections that runs of main() leave behind
Collections ==
    { << >> }
    \cup { add_summaries(<< >>, generate_summaries(extract_elements(d), env)) :
             d \in {"A", "B"}, env \in {AllAnswered, AllRefused} }

\* the query engine over a collection that main() has filled
QueryEngineInit == MainInit /\ QueryInit /\ index \in Collections

QueryEngineNext ==
    \/ \E q \in Questions, k \in Ks : \E search \in Searches(index, k) :
          \E gen \in AnswerService : DirectQuery(q, k, search, gen)
    \/ \E qs \in SeqsUpTo(Questions, MaxBatch), k \in Ks : BatchStart(qs, k)
    \/ \E search \in LoopSearches(index, k_arg) : \E gen \in LoopService :
          BatchStep(search, gen)
    \/ BatchReturn

QuerySpec == QueryEngineInit /\ [][QueryEngineNext]_vars

---------------------------------------------------------------------------
(* Claims about the cache and the summarizers, checked under Spec *)

Ids(entries) == [i \in 1..Len(entries) |-> entries[i].element_id]

SameIds(summarized, elems) ==
    /\ Ids(summarized.text) = Ids(elems.text)
    /\ Ids(summarized.tables) = Ids(elems.tables)
    /\ Ids(summarized.images) = Ids(elems.images)

\* the cache record main read has the hash of the document
Hit == cached_data.exists /\ cached_data.pdf_hash = get_pdf_hash(pdf)

\* C1: in a run whose cache record has the hash of the current document, the
\* summaries used for the rest of the run are exactly the stored summaries, and the
\* run makes no extraction and no call of a summarizer or a generation service.
C1_CacheHitReusesStored ==
    (pc \in {"summarize", "store", "loop"} /\ Hit) =>
        /\ summarized_elements = cached_data.summaries
        /\ calls = NoCalls
        /\ (pc = "store" => cache = cached_data)

\* a run that reused the cache answers a question in the interactive loop
C1_Witness ==
    /\ pc = "loop"
    /\ Hit
    /\ Len(summarized_elements.text) = 2
    /\ entry = "main"
    /\ vs_calls = 1

\* C2, first half: in a run with no cache record, or one of another hash, every
\* element of the document is summarized anew and no stored summary is used.
C2_MissRegenerates ==
    (pc \in {"store", "loop"} /\ ~Hit) =>
        /\ calls.extract = 1
        /\ elements = extract_elements(pdf)
        /\ calls.text = Len(elements.text)
        /\ calls.tables = Len(elements.tables)
        /\ calls.images = Len(elements.images)
        /\ SameIds(summarized_elements, elements)

\* the record of the document of this run, holding the summaries the run uses
CurrentRecord ==
    [exists |-> TRUE, pdf_hash |-> get_pdf_hash(pdf), summaries |-> summarized_elements]

\* C2 as claimed: a miss regenerates everything and replaces the record, so that
\* after every completed run the stored fingerprint is that of the document just
\* processed and the stored summaries are those of that document.
C2_Original ==
    /\ C2_MissRegenerates
    /\ pc = "store" => cache = CurrentRecord
    /\ pc = "done" => /\ cache.exists
                      /\ cache.pdf_hash = get_pdf_hash(pdf)
                      /\ SameIds(cache.summaries, extract_elements(pdf))

C2_State ==
    /\ C2_MissRegenerates
    /\ pc = "store" => cache = CurrentRecord
    /\ pc = "loop" => cache = NoCache \/ cache = CurrentRecord
    /\ pc = "done" => \/ cache = NoCache
                      \/ /\ cache.pdf_hash = get_pdf_hash(pdf)
                         /\ SameIds(cache.summaries, extract_elements(pdf))

\* the record disappears only when the user types the clear command
C2_OnlyClearRemoves ==
    (cache.exists /\ ~cache'.exists) =>
        \E line \in Lines : Lower(Strip(line)) = "clear" /\ Turn(line)

\* C2, amended: a miss regenerates everything and replaces the record, so that when
\* the summaries are stored the record holds the fingerprint of the document of the
\* run and the summaries the run uses; it stays so to the end of the run unless the
\* clear command deletes it, and then no record is left when the run completes.
C2_Amended == [](C2_State) /\ [][C2_OnlyClearRemoves]_vars

\* a run on a changed document has replaced the record of the earlier document
C2_Witness ==
    /\ pc = "loop"
    /\ cached_data.exists
    /\ cached_data.pdf_hash # get_pdf_hash(pdf)
    /\ cache = CurrentRecord
    /\ Len(summarized_elements.text) = 2

\* C4: a summarizer whose request to the generation service fails returns a
\* non-empty summary; for a text and for a table it is the first 200 characters of
\* the element's text.
C4_FallbackNonEmpty ==
    (summ_call.type # "none" /\ summ_call.failed) =>
        /\ Len(summ_call.returned) > 0
        /\ summ_call.type \in {"text", "table"} =>
              /\ Len(summ_call.returned) = Min(Len(summ_call.text), 200)
              /\ summ_call.returned = SubSeq(summ_call.text, 1, Len(summ_call.returned))

\* the request for a text of more than 200 characters failed
C4_Witness ==
    /\ summ_call.type = "text"
    /\ summ_call.failed
    /\ Len(summ_call.text) > 200

\* C9: each per-type sequence of summaries has the length of the sequence of
\* elements of the document and its i-th entry has the element_id of the i-th
\* element, while the summaries are generated, when all are generated, and when
\* they are read from the cache.
C9_OrderPreserved ==
    /\ pc = "summarize" =>
          /\ \A i \in 1..Len(summarized_elements.text) :
                summarized_elements.text[i].element_id = elements.text[i].element_id
          /\ \A i \in 1..Len(summarized_elements.tables) :
                summarized_elements.tables[i].element_id = elements.tables[i].element_id
          /\ \A i \in 1..Len(summarized_elements.images) :
                summarized_elements.images[i].element_id = elements.images[i].element_id
    /\ pc = "store" => SameIds(summarized_elements, extract_elements(pdf))

\* summaries read from the cache: two text entries, the first a fallback, the
\* second generated
C9_Witness ==
    /\ pc = "store"
    /\ use_cache
    /\ Len(summarized_elements.text) = 2
    /\ summarized_elements.text[1].summary
          = Slice(summarized_elements.text[1].original_text, FallbackChars)
    /\ summarized_elements.text[2].summary
          # Slice(summarized_elements.text[2].original_text, FallbackChars)

---------------------------------------------------------------------------
(* Claims about the query engine, checked under QuerySpec *)

\* RAGPipeline.query has been called and has returned or raised
Queried ==
    \/ entry \in {"main", "query", "batch raised"}
    \/ entry \in {"batch", "batch returned"} /\ responses # << >>

WellFormed(r) ==
    /\ r.kind = "returned"
    /\ DOMAIN r = {"kind", "answer", "sources", "confidence"}
    /\ r.confidence \in {"high", "medium", "low"}

\* C3: whatever the vector index and the generation service do, RAGPipeline.query
\* returns a well-formed RAGResponse and raises nothing.
C3_AlwaysResponds == (entry = "query") => WellFormed(response)

\* C5: when retrieval returns no document, the response is the fixed answer with no
\* sources and confidence low, and the generation service is not called.
C5_EmptyRetrieval ==
    (entry = "query" /\ response.kind = "returned" /\ retrieved_docs = << >>) =>
        /\ response.answer = "I couldn't find relevant information to answer this question."
        /\ response.sources = << >>
        /\ response.confidence = "low"
        /\ gen_calls = 0
        /\ ~generation.called

\* the search of a filled collection returned nothing
C5_Witness ==
    /\ entry = "query"
    /\ response.kind = "returned"
    /\ retrieved_docs = << >>
    /\ Len(index) > 0
    /\ question # ""

\* C6: the sources of a response are one record per retrieved document, in the order
\* of retrieval, at most k of them, whether the generation succeeded or failed.
C6_SourcesMatchRetrieved ==
    (entry = "query" /\ response.kind = "returned") =>
        /\ Len(response.sources) = Len(retrieved_docs)
        /\ Len(response.sources) <= k_arg
        /\ \A i \in 1..Len(retrieved_docs) :
              /\ response.sources[i].element_id = retrieved_docs[i].metadata.element_id
              /\ response.sources[i].element_type = retrieved_docs[i].metadata.element_type
              /\ response.sources[i].page = retrieved_docs[i].metadata.page
              /\ response.sources[i].content_preview
                    = SubSeq(retrieved_docs[i].page_content, 1,
                             Min(150, Len(retrieved_docs[i].page_content)))

\* the generation failed after two documents were retrieved, the second document of
\* the collection first
C6_Witness ==
    /\ entry = "query"
    /\ generation.called
    /\ ~generation.ok
    /\ Len(response.sources) = 2
    /\ retrieved_docs[1] = index[2]
    /\ response.sources[1].element_id # response.sources[2].element_id

\* C7: a query that retrieved documents calls the generation service exactly once;
\* when the call fails the response has confidence low and its answer contains the
\* reason of the failure, whatever the heuristic gives for that answer.
C7_OneGeneration ==
    (entry = "query" /\ retrieved_docs # << >>) =>
        /\ gen_calls = 1
        /\ generation.called
        /\ ~generation.ok =>
              /\ response.kind = "returned"
              /\ response.confidence = "low"
              /\ Contains(response.answer, generation.text)

\* the generation failed with a reason that the heuristic would score high
C7_Witness ==
    /\ entry = "query"
    /\ generation.called
    /\ ~generation.ok
    /\ Len(response.answer) > 100
    /\ Contains(Lower(response.answer), "source")

Mentions(a) == \E i \in 1..(Len(a) - 5) : Lower(SubSeq(a, i, i + 5)) = "source"

\* C8: the confidence of a generated answer a is high if a contains "source" in any
\* case and has more than 100 characters, else medium if it has more than 50, else
\* low.
C8_Confidence ==
    (entry = "query" /\ generation.called /\ generation.ok) =>
        LET a == response.answer
        IN  /\ response.kind = "returned"
            /\ a = Strip(generation.text)
            /\ response.confidence =
                  (IF Mentions(a) /\ Len(a) > 100 THEN "high"
                   ELSE IF Len(a) > 50 THEN "medium" ELSE "low")
            /\ Len(a) = 30 => response.confidence # "high"
            /\ (Len(a) = 150 /\ Mentions(a)) => response.confidence = "high"
            /\ Len(a) = 100 => response.confidence # "high"
            /\ Len(a) = 50 => response.confidence = "low"

\* an answer of exactly 100 characters that cites a source
C8_Witness ==
    /\ entry = "query"
    /\ generation.called
    /\ generation.ok
    /\ Len(response.answer) = 100
    /\ Mentions(response.answer)
    /\ response.confidence = "medium"

\* C10: an empty question is rejected before retrieval: no call to the vector index
\* and none to the generation service, from the interactive loop, from
\* RAGPipeline.query and from batch_query.
C10_EmptyRejected ==
    (Queried /\ question = "") => (vs_calls = 0 /\ gen_calls = 0)

---------------------------------------------------------------------------
(* Claims about the cache file, the runs and the vector store, checked under Spec *)

\* the file is absent or holds one whole record
Complete(file) == ~file.exists \/ DOMAIN file = {"exists", "pdf_hash", "summaries"}

\* C11: a save is atomic for later loads: when save_cached_summaries fails or is
\* stopped at any point, the file is absent or holds a whole record, the previous
\* one or the new one, and the next load_cached_summaries returns it.
C11_SaveAtomic == Complete(cache) /\ pc # "load failed"

\* every element of the run has its summary
Finished ==
    /\ Len(summarized_elements.text) = Len(elements.text)
    /\ Len(summarized_elements.tables) = Len(elements.tables)
    /\ Len(summarized_elements.images) = Len(elements.images)
    /\ calls.text = Len(elements.text)
    /\ calls.tables = Len(elements.tables)
    /\ calls.images = Len(elements.images)

\* while the summaries are generated the file is as the run read it, and a whole
\* record with the hash of the document has a summary for each of its elements
C12_State ==
    /\ pc = "summarize" => cache = cached_data
    /\ (pdf # NoPdf /\ cache.exists /\ Complete(cache)
          /\ cache.pdf_hash = get_pdf_hash(pdf)) =>
            SameIds(cache.summaries, extract_elements(pdf))

\* a step that writes to the file is taken when every element has its summary
C12_WriteAfterAll ==
    (cache' # cache /\ cache'.exists) => (pc = "summarize" /\ Finished)

\* a step taken before every element has its summary leaves the file as it was
C12_StopLeaves == (pc = "summarize" /\ ~Finished) => cache' = cache

---------------------------------------------------------------------------
(* A claim about batch_query, checked under QuerySpec *)

\* C13: batch_query over n questions returns n responses, one for each question in
\* the order of the questions, whatever happens to a single query: an empty
\* retrieval, a failure of the generation, a failure of the retrieval. No call ends
\* with an exception, and when it returns no question is left without a response.
C13_BatchOneToOne ==
    /\ entry # "batch raised"
    /\ entry = "batch returned" => questions = << >>
    /\ entry \in {"batch", "batch returned"} =>
          \A i \in 1..Len(responses) : WellFormed(responses[i])

---------------------------------------------------------------------------
(* Claims about the clear command and the vector store, checked under Spec *)

\* the user typed the clear command
Clears(line) == line # Interrupt /\ Lower(Strip(line)) = "clear"

\* the lines that are the clear command, and what main reads from them
ClearLines == { line \in Lines : Clears(line) }

ClearWords == { Strip(line) : line \in ClearLines }

\* after the clear command the loop goes on with no cache file
C14_State ==
    (pc = "loop" /\ entry = "main" /\ question \in ClearWords) => cache = NoCache

C14_Step ==
    /\ (pc = "loop" /\ question' \in ClearWords) =>
          \A line \in ClearLines :
              Turn(line) =>
                  /\ cache' = NoCache
                  /\ pc' = "loop"
                  /\ index' = index
    /\ (pc = "loop" /\ pc' = "done") => cache' = cache
    /\ (cache = NoCache /\ runs' = runs + 1 /\ pdf' # NoPdf) =>
          /\ cached_data' = NoCache
          /\ ~use_cache'
          /\ pc' = "summarize"
          /\ calls'.extract = 1
          /\ elements' = extract_elements(pdf')
          /\ summarized_elements' = NoElements

\* C14: the clear command removes the cache file whatever hash it holds; with no
\* file it changes nothing and raises nothing, so that typing it twice is typing it
\* once; after it load_cached_summaries returns None, and the next run extracts
\* and summarizes every element, also when the document is unchanged.
C14_ClearRemoves == [](C14_State) /\ [][C14_Step]_vars

\* the second run on the same document, after the clear command in the first run:
\* the document is summarized and indexed again
C14_Witness ==
    /\ runs = 2
    /\ pc = "loop"
    /\ pdf = "A"
    /\ ~cached_data.exists
    /\ calls.text = 2
    /\ Len(index) = 4
    /\ index[1].metadata.element_id = index[3].metadata.element_id

\* the first reading of the count of the collection failed in this run
CountFailed == store_call # NoStoreCall /\ "error" \in DOMAIN store_call.reported

\* C15: an error of the storage of the cache or of the index ends the run and is
\* never swallowed: no run goes on after reading an unreadable cache file, and when
\* the reading of the count of the collection fails the run does not go on as if
\* the collection were empty and adds no document.
C15_StorageErrorsFatal ==
    /\ pc \in {"summarize", "store", "loop"} => ~Torn(cache)
    /\ CountFailed => (pc # "loop" /\ index = store_call.before)

\* the first reading of the count of the collection in this run
Reported == TotalDocuments(store_call.reported)

\* C16: in every run that reaches the vector store, the indexing is skipped if and
\* only if the run reused the cache and the store reported at least one document,
\* and then the collection is unchanged; otherwise every summarized element is
\* added after the documents already there, which stay, with no deduplication, so
\* that the count grows by the number of summarized elements.
C16_IngestionSkippedIff ==
    pc = "loop" =>
        /\ ~store_call.ingested <=> (use_cache /\ Reported > 0)
        /\ ~store_call.ingested => index = store_call.before
        /\ store_call.ingested =>
              /\ Len(index) = Len(store_call.before)
                                 + Len(summarized_elements.text)
                                 + Len(summarized_elements.tables)
                                 + Len(summarized_elements.images)
              /\ SubSeq(index, 1, Len(store_call.before)) = store_call.before
              /\ \A i \in 1..Len(summarized_elements.text) :
                    index[Len(store_call.before) + i].metadata.element_id
                        = summarized_elements.text[i].element_id

\* a run that did not reuse the cache, on a collection that held documents: the
\* documents of an unchanged document are there twice
C16_Witness ==
    /\ pc = "loop"
    /\ ~use_cache
    /\ store_call.ingested
    /\ Reported = 2
    /\ Len(index) = 4
    /\ index[1] = index[3]

====
